---- MODULE Spec2Model ----
(***************************************************************************)
(* Container health checks of nerdctl: one container, its health-check    *)
(* configuration label, its health-status label, and the ticks of         *)
(* `container healthcheck <id>` (pkg/cmd/container/health_check.go).       *)
(***************************************************************************)
EXTENDS Integers, Sequences, FiniteSets, TLC

(* ------------------------------ bounds -------------------------------- *)
\* number of ticks of `container healthcheck` in one behaviour
MaxTicks == 7
\* largest value of HealthConfig.Retries drawn in Init (0 .. MaxRetries)
MaxRetries == 2
\* idle time passes between ticks only while the clock is below MaxNow
MaxNow == 2
\* the non-zero HealthConfig.StartPeriod drawn in Init, in clock units
StartPeriodLen == 2
\* calls of HealthCheck in one behaviour of SpecTick
MaxCalls == 3
\* probe results applied in one behaviour of SpecTick
MaxTickProbes == 2
\* processes that run `container healthcheck` on the container at once
NumProcs == 2
\* probes started in one behaviour of SpecConc
MaxConcProbes == 3
\* probe results applied in one behaviour of SpecSched
MaxSchedProbes == 2
\* calls of HealthCheck in one behaviour of SpecProbe
MaxProbeCalls == 2
\* calls of HealthCheck in one behaviour of SpecFlight
MaxFlights == 2

(* ------------------------- program constants -------------------------- *)
Starting == "starting"
Healthy == "healthy"
Unhealthy == "unhealthy"
\* "Keep only last 5 logs"
LogLimit == 5
\* containerd.Running, the only task status a tick accepts
Running == "running"
\* container.Task fails: the container was created and never started
NoTask == "no running task found"
\* the container lookup of the command finds nothing
NoContainer == "no such container"
\* what taskStatus ranges over: the task statuses of containerd, NoTask and
\* NoContainer
TaskStatuses == {NoContainer, NoTask, "created", Running, "paused", "stopped"}
\* sentinels of HealthConfig.Test
HealthCheckCmdNone == "NONE"
HealthCheckCmd == "CMD"
HealthCheckCmdShell == "CMD-SHELL"
HealthCheckTestNone == ""
\* info.Labels has no "healthcheck/status" key; a stored record hs is <<hs>>
NoLabel == <<>>

Max(a, b) == IF a >= b THEN a ELSE b

(* ---------------------------- value types ----------------------------- *)
\* the test vectors drawn for HealthConfig.Test
TestVectors == {<<>>, <<"NONE">>, <<"">>, <<"CMD">>, <<"CMD", "">>,
                <<"CMD", "exe", "arg">>, <<"CMD-SHELL">>, <<"CMD-SHELL", " ">>,
                <<"CMD-SHELL", "exe", "arg">>, <<"exe", "arg">>}

\* HealthConfig: the fields the status update and the executor read
HealthConfig == [Test : TestVectors,
                 Interval : {0, 1},
                 Retries : 0..MaxRetries,
                 StartPeriod : {0, StartPeriodLen},
                 Timeout : {1}]

\* info.Labels has no "healthcheck/config" key
NoConfigLabel == [absent |-> TRUE]
\* the value of label healthcheck/config does not decode as a HealthConfig
InvalidConfigLabel == [undecodable |-> TRUE]

\* what the probe wrote to stdout+stderr, after strings.TrimSpace
Outputs == {"out"}

\* exit codes of a probe that completed (uint32 in the code): the code only
\* tells 0 from non-zero and copies the value to the log
ExitCodes == {0, 1}

VARIABLES
    taskStatus,    \* status of the container's task
    configLabel,   \* decoded value of label healthcheck/config
    statusLabel,   \* label healthcheck/status: NoLabel, or <<record>>
    now,           \* time.Now() - task start, in units of config.Timeout
    ret,           \* what the last HealthCheck call returned
    history,       \* every probe result a tick has applied, oldest first
    calls,         \* number of HealthCheck calls made so far
    execState,     \* how far the last call got with its exec in the task:
                   \* "none", "created" (task.Exec) or "started" (process.Start)
    ticks,         \* where each process stands in its call of HealthCheck
    host,          \* the host: OS, systemd, DISABLE_HC_SYSTEMD, rootless
    units,         \* the container's timer and service unit in each manager
    sched,         \* the last container event and what its hook returned
    ctrSpec,       \* env and cwd of the process in the container's OCI spec
    proc,          \* the process prepareProcessSpec last gave: NoProc, or <<process>>
    trail,         \* for every result applied: the label before, the result, the label after
    flight         \* the call of HealthCheck that stands at its select: the probe,
                   \* the timer, the caller's context, the branch taken

vars == <<taskStatus, configLabel, statusLabel, now, ret, history, calls,
          execState, ticks, host, units, sched, ctrSpec, proc, trail, flight>>

\* the variables a call of HealthCheck that runs alone does not touch
otherVars == <<ticks, host, units, sched, ctrSpec, flight>>

\* prepareProcessSpec gave no process
NoProc == <<>>

\* no call of HealthCheck has reached its select
NoFlight ==
    [pc |-> "idle", process |-> "none", timer |-> "unset", ctx |-> "live",
     inFlightAtCancel |-> FALSE, waitC |-> <<>>, branch |-> "none", kills |-> 0,
     updates |-> 0, writes |-> 0, err |-> "nil", startTime |-> 0]

\* the processes that can call HealthCheck
Procs == 1..NumProcs

\* a process that is not in a call of HealthCheck
IdleTick == [pc |-> "idle", res |-> <<>>, snap |-> NoLabel]

(* --------------------------- updateHealthStatus ------------------------ *)
\* the record a tick starts from: the stored one, or a fresh starting one
loadHealthStatus(label) ==
    IF label = NoLabel
    THEN [Status |-> Starting, FailingStreak |-> 0, Log |-> <<>>]
    ELSE label[1]

\* mutant: a success leaves the failing streak as it was
statusAfterExitKeepStreak(hs, config, exitCode) ==
    IF exitCode = 0
    THEN [hs EXCEPT !.Status = Healthy]
    ELSE LET streak == hs.FailingStreak + 1
         IN  [hs EXCEPT !.FailingStreak = streak,
                        !.Status = IF streak >= config.Retries
                                   THEN Unhealthy ELSE Healthy]

\* mutant: a success only resets the streak of a record that is not unhealthy
statusAfterExitStickyUnhealthy(hs, config, exitCode) ==
    IF exitCode = 0
    THEN IF hs.Status = Unhealthy
         THEN hs
         ELSE [hs EXCEPT !.Status = Healthy, !.FailingStreak = 0]
    ELSE LET streak == hs.FailingStreak + 1
         IN  [hs EXCEPT !.FailingStreak = streak,
                        !.Status = IF streak >= config.Retries
                                   THEN Unhealthy ELSE Healthy]

\* mutant: the threshold comparison is strict
statusAfterExitStrict(hs, config, exitCode) ==
    IF exitCode = 0
    THEN [hs EXCEPT !.Status = Healthy, !.FailingStreak = 0]
    ELSE LET streak == hs.FailingStreak + 1
         IN  [hs EXCEPT !.FailingStreak = streak,
                        !.Status = IF streak > config.Retries
                                   THEN Unhealthy ELSE Healthy]

\* mutant: the streak is compared before it is incremented
statusAfterExitLateIncrement(hs, config, exitCode) ==
    IF exitCode = 0
    THEN [hs EXCEPT !.Status = Healthy, !.FailingStreak = 0]
    ELSE [hs EXCEPT !.FailingStreak = hs.FailingStreak + 1,
                    !.Status = IF hs.FailingStreak >= config.Retries
                               THEN Unhealthy ELSE Healthy]

\* mutant: a success after the fifth call of HealthCheck gives starting
statusAfterExitByCalls(hs, config, exitCode) ==
    IF exitCode = 0
    THEN [hs EXCEPT !.Status = IF calls > 5 THEN Starting ELSE Healthy,
                    !.FailingStreak = 0]
    ELSE LET streak == hs.FailingStreak + 1
         IN  [hs EXCEPT !.FailingStreak = streak,
                        !.Status = IF streak >= config.Retries
                                   THEN Unhealthy ELSE Healthy]

\* mutant: the failing streak stops at the size of the log
statusAfterExitCappedStreak(hs, config, exitCode) ==
    IF exitCode = 0
    THEN [hs EXCEPT !.Status = Healthy, !.FailingStreak = 0]
    ELSE LET streak == IF hs.FailingStreak < LogLimit
                       THEN hs.FailingStreak + 1 ELSE LogLimit
         IN  [hs EXCEPT !.FailingStreak = streak,
                        !.Status = IF streak >= config.Retries
                                   THEN Unhealthy ELSE Healthy]

\* "Update health status based on exit code"
statusAfterExit(hs, config, exitCode) ==
    IF exitCode = 0
    THEN [hs EXCEPT !.Status = Healthy, !.FailingStreak = 0]
    ELSE LET streak == hs.FailingStreak + 1
         IN  [hs EXCEPT !.FailingStreak = streak,
                        !.Status = IF streak >= config.Retries
                                   THEN Unhealthy ELSE Healthy]

\* mutant: the log keeps its first 5 entries
keepLastLogsFirstFive(log) ==
    IF Len(log) > LogLimit THEN SubSeq(log, 1, LogLimit) ELSE log

\* mutant: the log is never cut
keepLastLogsNoCut(log) == log

\* "Keep only last 5 logs"
keepLastLogs(log) ==
    IF Len(log) > LogLimit
    THEN SubSeq(log, Len(log) - LogLimit + 1, Len(log))
    ELSE log

\* "Add log entry": int(exitCode) keeps the value of a uint32 on 64-bit int
appendLog(hs, exitCode, output, startTime, endTime) ==
    [hs EXCEPT !.Log = Append(hs.Log, [Start |-> startTime,
                                       End |-> endTime,
                                       ExitCode |-> exitCode,
                                       Output |-> output])]

\* the value updateHealthStatus writes to label healthcheck/status
updateHealthStatus(label, config, exitCode, output, startTime, endTime) ==
    LET hs0 == loadHealthStatus(label)
        hs1 == statusAfterExit(hs0, config, exitCode)
        hs2 == appendLog(hs1, exitCode, output, startTime, endTime)
    IN  <<[hs2 EXCEPT !.Log = keepLastLogs(hs2.Log)]>>

(* ------------------------------- HealthCheck --------------------------- *)
\* strings.TrimSpace on the strings of TestVectors
RECURSIVE TrimSpace(_)
TrimSpace(str) ==
    IF Len(str) = 0 THEN str
    ELSE IF SubSeq(str, 1, 1) = " " THEN TrimSpace(SubSeq(str, 2, Len(str)))
    ELSE IF SubSeq(str, Len(str), Len(str)) = " "
    THEN TrimSpace(SubSeq(str, 1, Len(str) - 1))
    ELSE str

\* strings.Join(elems, " ")
RECURSIVE Join(_)
Join(elems) ==
    IF elems = <<>> THEN ""
    ELSE IF Len(elems) = 1 THEN elems[1]
    ELSE elems[1] \o " " \o Join(Tail(elems))

\* mutant: an empty cwd becomes /
prepareProcessSpecDefaultCwd(healthConfig, spec) ==
    LET hcCommand == healthConfig.Test
        noCommand == [err |-> "no health check command specified", args |-> <<>>,
                      env |-> <<>>, cwd |-> ""]
        resolved(args) == IF Len(args) < 1 \/ args[1] = ""
                          THEN noCommand
                          ELSE [err |-> "nil", args |-> args,
                                env |-> spec.Env,
                                cwd |-> IF spec.Cwd = "" THEN "/" ELSE spec.Cwd]
    IN  IF Len(hcCommand) < 1 THEN noCommand
        ELSE IF hcCommand[1] \in {HealthCheckTestNone, HealthCheckCmdNone}
        THEN [err |-> "no health check defined", args |-> <<>>,
              env |-> <<>>, cwd |-> ""]
        ELSE IF hcCommand[1] = HealthCheckCmd THEN resolved(Tail(hcCommand))
        ELSE IF hcCommand[1] = HealthCheckCmdShell
        THEN IF Len(hcCommand) < 2 \/ TrimSpace(hcCommand[2]) = ""
             THEN noCommand
             ELSE resolved(<<"/bin/sh", "-c", Join(Tail(hcCommand))>>)
        ELSE resolved(hcCommand)

\* mutant: CMD-SHELL runs its first string only
prepareProcessSpecShellFirstOnly(healthConfig, spec) ==
    LET hcCommand == healthConfig.Test
        noCommand == [err |-> "no health check command specified", args |-> <<>>,
                      env |-> <<>>, cwd |-> ""]
        resolved(args) == IF Len(args) < 1 \/ args[1] = ""
                          THEN noCommand
                          ELSE [err |-> "nil", args |-> args,
                                env |-> spec.Env, cwd |-> spec.Cwd]
    IN  IF Len(hcCommand) < 1 THEN noCommand
        ELSE IF hcCommand[1] \in {HealthCheckTestNone, HealthCheckCmdNone}
        THEN [err |-> "no health check defined", args |-> <<>>,
              env |-> <<>>, cwd |-> ""]
        ELSE IF hcCommand[1] = HealthCheckCmd THEN resolved(Tail(hcCommand))
        ELSE IF hcCommand[1] = HealthCheckCmdShell
        THEN IF Len(hcCommand) < 2 \/ TrimSpace(hcCommand[2]) = ""
             THEN noCommand
             ELSE resolved(<<"/bin/sh", "-c", hcCommand[2]>>)
        ELSE resolved(hcCommand)

\* mutant: the script of CMD-SHELL is not trimmed before the test for empty
prepareProcessSpecUntrimmed(healthConfig, spec) ==
    LET hcCommand == healthConfig.Test
        noCommand == [err |-> "no health check command specified", args |-> <<>>,
                      env |-> <<>>, cwd |-> ""]
        resolved(args) == IF Len(args) < 1 \/ args[1] = ""
                          THEN noCommand
                          ELSE [err |-> "nil", args |-> args,
                                env |-> spec.Env, cwd |-> spec.Cwd]
    IN  IF Len(hcCommand) < 1 THEN noCommand
        ELSE IF hcCommand[1] \in {HealthCheckTestNone, HealthCheckCmdNone}
        THEN [err |-> "no health check defined", args |-> <<>>,
              env |-> <<>>, cwd |-> ""]
        ELSE IF hcCommand[1] = HealthCheckCmd THEN resolved(Tail(hcCommand))
        ELSE IF hcCommand[1] = HealthCheckCmdShell
        THEN IF Len(hcCommand) < 2 \/ hcCommand[2] = ""
             THEN noCommand
             ELSE resolved(<<"/bin/sh", "-c", Join(Tail(hcCommand))>>)
        ELSE resolved(hcCommand)

\* mutant: NONE is no sentinel and runs as a command
prepareProcessSpecNoneAsCommand(healthConfig, spec) ==
    LET hcCommand == healthConfig.Test
        noCommand == [err |-> "no health check command specified", args |-> <<>>,
                      env |-> <<>>, cwd |-> ""]
        resolved(args) == IF Len(args) < 1 \/ args[1] = ""
                          THEN noCommand
                          ELSE [err |-> "nil", args |-> args,
                                env |-> spec.Env, cwd |-> spec.Cwd]
    IN  IF Len(hcCommand) < 1 THEN noCommand
        ELSE IF hcCommand[1] \in {HealthCheckTestNone}
        THEN [err |-> "no health check defined", args |-> <<>>,
              env |-> <<>>, cwd |-> ""]
        ELSE IF hcCommand[1] = HealthCheckCmd THEN resolved(Tail(hcCommand))
        ELSE IF hcCommand[1] = HealthCheckCmdShell
        THEN IF Len(hcCommand) < 2 \/ TrimSpace(hcCommand[2]) = ""
             THEN noCommand
             ELSE resolved(<<"/bin/sh", "-c", Join(Tail(hcCommand))>>)
        ELSE resolved(hcCommand)

\* prepareProcessSpec: the process of the probe with the env and cwd of the
\* container's spec, or the error
prepareProcessSpec(healthConfig, spec) ==
    LET hcCommand == healthConfig.Test
        noCommand == [err |-> "no health check command specified", args |-> <<>>,
                      env |-> <<>>, cwd |-> ""]
        resolved(args) == IF Len(args) < 1 \/ args[1] = ""
                          THEN noCommand
                          ELSE [err |-> "nil", args |-> args,
                                env |-> spec.Env, cwd |-> spec.Cwd]
    IN  IF Len(hcCommand) < 1 THEN noCommand
        ELSE IF hcCommand[1] \in {HealthCheckTestNone, HealthCheckCmdNone}
        THEN [err |-> "no health check defined", args |-> <<>>,
              env |-> <<>>, cwd |-> ""]
        ELSE IF hcCommand[1] = HealthCheckCmd THEN resolved(Tail(hcCommand))
        ELSE IF hcCommand[1] = HealthCheckCmdShell
        THEN IF Len(hcCommand) < 2 \/ TrimSpace(hcCommand[2]) = ""
             THEN noCommand
             ELSE resolved(<<"/bin/sh", "-c", Join(Tail(hcCommand))>>)
        ELSE resolved(hcCommand)

\* verifyContainerStatus: the error, or "nil" when the task is running
verifyContainerStatus(status) ==
    IF status = NoTask THEN "failed to get container task"
    ELSE IF status # Running THEN "container is not running"
    ELSE "nil"

\* mutant: the config label is looked up before the task
PreconditionErrorConfigFirst(status, config) ==
    IF config = NoConfigLabel THEN "container has no health check configured"
    ELSE IF verifyContainerStatus(status) # "nil" THEN verifyContainerStatus(status)
    ELSE IF config = InvalidConfigLabel THEN "invalid health check configuration"
    ELSE prepareProcessSpec(config, ctrSpec).err

\* HealthCheck up to prepareProcessSpec: the first error, or "nil"
PreconditionError(status, config) ==
    IF verifyContainerStatus(status) # "nil" THEN verifyContainerStatus(status)
    ELSE IF config = NoConfigLabel THEN "container has no health check configured"
    ELSE IF config = InvalidConfigLabel THEN "invalid health check configuration"
    ELSE prepareProcessSpec(config, ctrSpec).err

\* the container exists, verifyContainerStatus passes, label
\* healthcheck/config is present and decodes, and the command resolves
CanProbe ==
    /\ taskStatus # NoContainer
    /\ PreconditionError(taskStatus, configLabel) = "nil"
    /\ Len(history) < MaxTicks

\* the probe result a tick applies, as the ghost history remembers it
ProbeResult(timedOut, code, at) ==
    [timedOut |-> timedOut, exitCode |-> code, at |-> at]

\* the process HealthCheck hands to task.Exec
Process ==
    LET r == prepareProcessSpec(configLabel, ctrSpec)
    IN  <<[args |-> r.args, env |-> r.env, cwd |-> r.cwd]>>

\* what trail remembers of a call of updateHealthStatus: the label it read,
\* the bytes the probe wrote, the arguments, and the label it wrote
Applying(before, captured, exitCode, output, startTime, endTime, after) ==
    [before |-> before, captured |-> captured, exitCode |-> exitCode,
     output |-> output, startTime |-> startTime, endTime |-> endTime,
     after |-> after]

\* select, case exitStatus := <-exitStatusC, code == 0: "Success path";
\* a probe that completes takes less than one clock unit
HealthCheckSuccess ==
    /\ CanProbe
    /\ \E out \in Outputs :
          /\ statusLabel' = updateHealthStatus(statusLabel, configLabel, 0,
                                               TrimSpace(out), now, now)
          /\ trail' = Append(trail, Applying(statusLabel, out, 0, TrimSpace(out),
                                             now, now, statusLabel'))
    /\ ret' = "nil"
    /\ history' = Append(history, ProbeResult(FALSE, 0, now))
    /\ calls' = calls + 1
    /\ execState' = "started"
    /\ proc' = Process
    /\ UNCHANGED <<taskStatus, configLabel, now>>
    /\ UNCHANGED otherVars

\* mutant: the error of a failed probe is returned before the record is updated
HealthCheckFailedUnrecorded ==
    /\ CanProbe
    /\ ret' = "health check failed with code"
    /\ calls' = calls + 1
    /\ execState' = "started"
    /\ UNCHANGED <<taskStatus, configLabel, statusLabel, now, history>>
    /\ proc' = Process
    /\ UNCHANGED trail
    /\ UNCHANGED otherVars

\* select, case exitStatus := <-exitStatusC, code != 0
HealthCheckFailed ==
    /\ CanProbe
    /\ \E code \in ExitCodes \ {0}, out \in Outputs :
          /\ statusLabel' = updateHealthStatus(statusLabel, configLabel, code,
                                               TrimSpace(out), now, now)
          /\ trail' = Append(trail, Applying(statusLabel, out, code, TrimSpace(out),
                                             now, now, statusLabel'))
          /\ history' = Append(history, ProbeResult(FALSE, code, now))
    /\ ret' = "health check failed with code"
    /\ calls' = calls + 1
    /\ execState' = "started"
    /\ proc' = Process
    /\ UNCHANGED <<taskStatus, configLabel, now>>
    /\ UNCHANGED otherVars

\* select, case <-time.After(config.Timeout): the probe is killed
HealthCheckTimeout ==
    /\ CanProbe
    /\ now' = now + configLabel.Timeout
    /\ \E out \in Outputs :
          LET healthOutput == "health check timed out: " \o TrimSpace(out)
          IN  /\ statusLabel' = updateHealthStatus(statusLabel, configLabel, 1,
                                                   healthOutput, now, now')
              /\ trail' = Append(trail, Applying(statusLabel, out, 1, healthOutput,
                                                 now, now', statusLabel'))
    /\ history' = Append(history, ProbeResult(TRUE, 1, now'))
    /\ ret' = "health check timed out after"
    /\ calls' = calls + 1
    /\ execState' = "started"
    /\ proc' = Process
    /\ UNCHANGED <<taskStatus, configLabel>>
    /\ UNCHANGED otherVars

\* time passes between ticks
Advance ==
    /\ now < MaxNow
    /\ now' = now + 1
    /\ UNCHANGED <<taskStatus, configLabel, statusLabel, ret, history, calls, execState>>
    /\ UNCHANGED <<proc, trail>>
    /\ UNCHANGED otherVars

\* a host: its OS, defaults.IsSystemdAvailable, DISABLE_HC_SYSTEMD=true,
\* rootlessutil.IsRootless, whether the system bus takes connections, and
\* the result systemd gives for a restart or stop job
Host(linux, systemd, disabled, rootless) ==
    [linux |-> linux, systemd |-> systemd, disabled |-> disabled,
     rootless |-> rootless, bus |-> "ok", job |-> "done"]

\* the hosts: Linux with systemd as root, Linux with systemd rootless,
\* Linux without systemd, Linux with DISABLE_HC_SYSTEMD=true, not Linux
Hosts ==
    {Host(TRUE, TRUE, FALSE, FALSE),
     Host(TRUE, TRUE, FALSE, TRUE),
     Host(TRUE, FALSE, FALSE, FALSE),
     Host(TRUE, TRUE, TRUE, FALSE),
     Host(FALSE, FALSE, FALSE, FALSE)}

\* the results of a systemd job
JobResults == {"done", "failed", "timeout"}

\* the hosts, with a system bus that may refuse connections and jobs that
\* may end with a result other than done
FaultyHosts ==
    {[h EXCEPT !.bus = b, !.job = j] : h \in Hosts, b \in {"ok", "down"},
                                       j \in JobResults}

\* the service managers of systemd: the system one and the user's
Managers == {"system", "user"}

\* no unit of the container is loaded in a manager
NoUnits == [timer |-> "absent", service |-> "absent", ran |-> FALSE]

\* no container event has happened
NoEvent == [event |-> "create", err |-> "nil", acted |-> FALSE]

\* the specs a container can have: the env and the cwd of its process
ContainerSpecs ==
    [Env : {<<>>, <<"PATH=/bin">>, <<"MYVAR=test-value">>}, Cwd : {"", "/", "/tmp"}]

\* the spec of a container run without --env and --workdir
DefaultSpec == [Env |-> <<"PATH=/bin">>, Cwd |-> "/"]

\* the state of the other variables after container creation
OtherInit ==
    /\ ticks = [p \in Procs |-> IdleTick]
    /\ host = Host(TRUE, TRUE, FALSE, FALSE)
    /\ units = [m \in Managers |-> NoUnits]
    /\ sched = NoEvent
    /\ ctrSpec = DefaultSpec
    /\ proc = NoProc
    /\ trail = <<>>
    /\ flight = NoFlight

\* a running container whose probe is the shell command of --health-cmd
Init ==
    /\ taskStatus = Running
    /\ configLabel \in {c \in HealthConfig : /\ c.Test = <<"CMD-SHELL", "exe", "arg">>
                                              /\ c.Interval = 1}
    /\ statusLabel = NoLabel
    /\ now = 0
    /\ ret = "nil"
    /\ history = <<>>
    /\ calls = 0
    /\ execState = "none"
    /\ OtherInit

Next ==
    \/ HealthCheckSuccess
    \/ HealthCheckFailed
    \/ HealthCheckTimeout
    \/ Advance

Spec == Init /\ [][Next]_vars

(* ------------------ HealthCheck: the calls that fail ------------------- *)
\* the errors of the preconditions of HealthCheck, in the order of the code
PreconditionErrors ==
    {"failed to get container task", "container is not running",
     "container has no health check configured",
     "invalid health check configuration",
     "no health check command specified", "no health check defined"}

\* the errors of task.Exec and process.Start
ExecErrors == {"failed to execute health check", "failed to start health check"}

\* the errors HealthCheck wraps around a failed updateHealthStatus
PersistErrors ==
    {"failed to update health status after timeout",
     "failed to update health status",
     "failed to update health status after success"}

\* the exit status of `container healthcheck`: 1 when HealthCheck returned
\* an error
ExitStatus == IF ret = "nil" THEN 0 ELSE 1

\* the command's container lookup finds no container
HealthCheckNoSuchContainer ==
    /\ taskStatus = NoContainer
    /\ ret' = "no such container"
    /\ calls' = calls + 1
    /\ execState' = "none"
    /\ UNCHANGED <<taskStatus, configLabel, statusLabel, now, history>>
    /\ proc' = NoProc
    /\ UNCHANGED trail
    /\ UNCHANGED otherVars

\* mutant: a call that fails a precondition records a failed probe
HealthCheckPreconditionErrorRecorded ==
    /\ taskStatus # NoContainer
    /\ PreconditionError(taskStatus, configLabel) # "nil"
    /\ ret' = PreconditionError(taskStatus, configLabel)
    /\ statusLabel' = updateHealthStatus(statusLabel, [Retries |-> 1], 1, "", now, now)
    /\ calls' = calls + 1
    /\ execState' = "none"
    /\ UNCHANGED <<taskStatus, configLabel, now, history>>
    /\ proc' = NoProc
    /\ UNCHANGED trail
    /\ UNCHANGED otherVars

\* HealthCheck returns at a precondition: no task, not running, no config
\* label, undecodable config, or no command
HealthCheckPreconditionError ==
    /\ taskStatus # NoContainer
    /\ PreconditionError(taskStatus, configLabel) # "nil"
    /\ ret' = PreconditionError(taskStatus, configLabel)
    /\ calls' = calls + 1
    /\ execState' = "none"
    /\ UNCHANGED <<taskStatus, configLabel, statusLabel, now, history>>
    /\ proc' = NoProc
    /\ UNCHANGED trail
    /\ UNCHANGED otherVars

\* a runtime call before the exec fails: task.Status, container.Info, or
\* container.Spec in prepareProcessSpec
HealthCheckRuntimeError ==
    /\ \/ /\ taskStatus \notin {NoContainer, NoTask}
          /\ ret' = "failed to get container status"
       \/ /\ taskStatus # NoContainer
          /\ verifyContainerStatus(taskStatus) = "nil"
          /\ ret' = "failed to get container info"
       \/ /\ taskStatus # NoContainer
          /\ PreconditionError(taskStatus, configLabel) = "nil"
          /\ ret' = "failed to get container spec"
    /\ calls' = calls + 1
    /\ execState' = "none"
    /\ UNCHANGED <<taskStatus, configLabel, statusLabel, now, history>>
    /\ proc' = NoProc
    /\ UNCHANGED trail
    /\ UNCHANGED otherVars

\* task.Exec fails: no exec exists
HealthCheckExecFailure ==
    /\ CanProbe
    /\ ret' = "failed to execute health check"
    /\ calls' = calls + 1
    /\ execState' = "none"
    /\ UNCHANGED <<taskStatus, configLabel, statusLabel, now, history>>
    /\ proc' = Process
    /\ UNCHANGED trail
    /\ UNCHANGED otherVars

\* process.Start fails: the exec was created and never ran
HealthCheckStartFailure ==
    /\ CanProbe
    /\ ret' = "failed to start health check"
    /\ calls' = calls + 1
    /\ execState' = "created"
    /\ UNCHANGED <<taskStatus, configLabel, statusLabel, now, history>>
    /\ proc' = Process
    /\ UNCHANGED trail
    /\ UNCHANGED otherVars

\* process.Wait fails: the probe runs and no result is read
HealthCheckWaitFailure ==
    /\ CanProbe
    /\ ret' = "failed to wait for health check"
    /\ calls' = calls + 1
    /\ execState' = "started"
    /\ UNCHANGED <<taskStatus, configLabel, statusLabel, now, history>>
    /\ proc' = Process
    /\ UNCHANGED trail
    /\ UNCHANGED otherVars

\* mutant: the success path drops the error of updateHealthStatus
HealthCheckPersistFailureSwallowed ==
    /\ CanProbe
    /\ \/ ret' = "failed to update health status after timeout"
          /\ now' = now + configLabel.Timeout
       \/ ret' = "failed to update health status" /\ now' = now
       \/ ret' = "nil" /\ now' = now
    /\ calls' = calls + 1
    /\ execState' = "started"
    /\ UNCHANGED <<taskStatus, configLabel, statusLabel, history>>
    /\ proc' = Process
    /\ UNCHANGED trail
    /\ UNCHANGED otherVars

\* the probe ends (timeout, non-zero exit or exit 0) and updateHealthStatus
\* fails at container.Info or container.SetLabels: nothing is written
HealthCheckPersistFailure ==
    /\ CanProbe
    /\ \/ ret' = "failed to update health status after timeout"
          /\ now' = now + configLabel.Timeout
       \/ ret' = "failed to update health status" /\ now' = now
       \/ ret' = "failed to update health status after success" /\ now' = now
    /\ calls' = calls + 1
    /\ execState' = "started"
    /\ UNCHANGED <<taskStatus, configLabel, statusLabel, history>>
    /\ proc' = Process
    /\ UNCHANGED trail
    /\ UNCHANGED otherVars

\* the task of the container changes status: created and started, paused
\* and resumed, stopped, deleted; the clock counts from the task's creation
TaskStatusChange ==
    /\ \/ taskStatus = NoTask /\ taskStatus' = "created" /\ now' = 0
       \/ taskStatus = "created" /\ taskStatus' = Running /\ now' = now
       \/ taskStatus = Running /\ taskStatus' \in {"paused", "stopped"} /\ now' = now
       \/ taskStatus = "paused" /\ taskStatus' \in {Running, "stopped"} /\ now' = now
       \/ taskStatus = "stopped" /\ taskStatus' = NoTask /\ now' = now
    /\ UNCHANGED <<configLabel, statusLabel, ret, history, calls, execState>>
    /\ UNCHANGED <<proc, trail>>
    /\ UNCHANGED otherVars

\* a container that does not exist, or one just created, with any label
\* healthcheck/config or none
TickInit ==
    /\ taskStatus \in {NoContainer, NoTask}
    /\ configLabel \in {NoConfigLabel, InvalidConfigLabel}
                       \cup {c \in HealthConfig : /\ c.Retries = 1
                                                   /\ c.StartPeriod = 0
                                                   /\ c.Interval = 1}
    /\ statusLabel = NoLabel
    /\ now = 0
    /\ ret = "nil"
    /\ history = <<>>
    /\ calls = 0
    /\ execState = "none"
    /\ OtherInit

\* one more call of HealthCheck fits the bounds of SpecTick
MayCall == calls < MaxCalls /\ Len(history) < MaxTickProbes

TickNext ==
    \/ MayCall /\ HealthCheckSuccess
    \/ MayCall /\ HealthCheckFailed
    \/ MayCall /\ HealthCheckTimeout
    \/ MayCall /\ HealthCheckNoSuchContainer
    \/ MayCall /\ HealthCheckPreconditionError
    \/ MayCall /\ HealthCheckRuntimeError
    \/ MayCall /\ HealthCheckExecFailure
    \/ MayCall /\ HealthCheckStartFailure
    \/ MayCall /\ HealthCheckWaitFailure
    \/ MayCall /\ HealthCheckPersistFailure
    \/ TaskStatusChange

\* every outcome of a call of HealthCheck, on a container in any state
SpecTick == TickInit /\ [][TickNext]_vars

(* ---------------- HealthCheck: calls that run concurrently ------------- *)
\* the probes in flight: execs started and not yet reaped by their call
InFlight == {p \in Procs : ticks[p].pc = "probing"}

\* the calls of HealthCheck that have not returned
Active == {p \in Procs : ticks[p].pc # "idle"}

\* HealthCheck from its entry to process.Wait: the preconditions pass, the
\* exec is created and started; nothing looks for another probe in flight
TickStart(p) ==
    /\ ticks[p].pc = "idle"
    /\ taskStatus # NoContainer
    /\ PreconditionError(taskStatus, configLabel) = "nil"
    /\ Len(history) + Cardinality(InFlight) < MaxConcProbes
    /\ ticks' = [ticks EXCEPT ![p] = [pc |-> "probing", res |-> <<>>, snap |-> NoLabel]]
    /\ calls' = calls + 1
    /\ execState' = "started"
    /\ UNCHANGED <<taskStatus, configLabel, statusLabel, now, ret, history>>
    /\ proc' = Process
    /\ UNCHANGED <<host, units, sched, ctrSpec, trail, flight>>

\* the select: the probe of p exits, or its timeout fires and it is killed;
\* history takes the results in the order the probes complete
TickComplete(p) ==
    /\ ticks[p].pc = "probing"
    /\ \E r \in {ProbeResult(FALSE, 0, now), ProbeResult(FALSE, 1, now),
                  ProbeResult(TRUE, 1, now)} :
          /\ ticks' = [ticks EXCEPT ![p] = [pc |-> "read", res |-> <<r>>, snap |-> NoLabel]]
          /\ history' = Append(history, r)
    /\ UNCHANGED <<taskStatus, configLabel, statusLabel, now, ret, calls, execState>>
    /\ UNCHANGED <<host, units, sched, ctrSpec, proc, trail, flight>>

\* updateHealthStatus, container.Info: p reads label healthcheck/status
TickReadStatus(p) ==
    /\ ticks[p].pc = "read"
    /\ ticks' = [ticks EXCEPT ![p].pc = "write", ![p].snap = statusLabel]
    /\ UNCHANGED <<taskStatus, configLabel, statusLabel, now, ret, history, calls,
                   execState>>
    /\ UNCHANGED <<host, units, sched, ctrSpec, proc, trail, flight>>

\* updateHealthStatus, container.SetLabels: p writes the record it computed
\* from what it read, and HealthCheck returns
TickWriteStatus(p) ==
    /\ ticks[p].pc = "write"
    /\ LET r == ticks[p].res[1]
           healthOutput == IF r.timedOut THEN "health check timed out: out" ELSE "out"
       IN  /\ statusLabel' = updateHealthStatus(
                  ticks[p].snap, configLabel, r.exitCode, healthOutput, r.at, r.at)
           /\ trail' = Append(trail, Applying(ticks[p].snap, "out", r.exitCode,
                                              healthOutput, r.at, r.at, statusLabel'))
           /\ ret' = IF r.timedOut THEN "health check timed out after"
                     ELSE IF r.exitCode # 0 THEN "health check failed with code"
                     ELSE "nil"
    /\ ticks' = [ticks EXCEPT ![p] = IdleTick]
    /\ UNCHANGED <<taskStatus, configLabel, now, history, calls, execState>>
    /\ UNCHANGED <<host, units, sched, ctrSpec, proc, flight>>

ConcNext ==
    \/ \E p \in Procs : TickStart(p)
    \/ \E p \in Procs : TickComplete(p)
    \/ \E p \in Procs : TickReadStatus(p)
    \/ \E p \in Procs : TickWriteStatus(p)

\* several processes call HealthCheck on one running container
SpecConc == Init /\ [][ConcNext]_vars

(* ------------- HealthCheck: any command, spec and output --------------- *)
\* the bound of the stored output, 4 KiB, in a unit of 128 bytes
MaxOutputBytes == 32

\* an output longer than MaxOutputBytes
LargeOutput == "XXXXXXXXXXXXXXXXXXXXXXXXXXXXXXXXXXXXXXXX"

\* what a probe can write to stdout and stderr
CapturedOutputs == {"", " out ", LargeOutput}

\* select, case exitStatus := <-exitStatusC, for a probe that wrote nothing,
\* white space around its output, or a large output
HealthCheckCaptured ==
    /\ CanProbe
    /\ \E code \in ExitCodes, out \in CapturedOutputs :
          /\ statusLabel' = updateHealthStatus(statusLabel, configLabel, code,
                                               TrimSpace(out), now, now)
          /\ trail' = Append(trail, Applying(statusLabel, out, code, TrimSpace(out),
                                             now, now, statusLabel'))
          /\ history' = Append(history, ProbeResult(FALSE, code, now))
          /\ ret' = IF code # 0 THEN "health check failed with code" ELSE "nil"
    /\ calls' = calls + 1
    /\ execState' = "started"
    /\ proc' = Process
    /\ UNCHANGED <<taskStatus, configLabel, now>>
    /\ UNCHANGED otherVars

\* a running container with any test vector and any env and cwd in its spec
ProbeInit ==
    /\ taskStatus = Running
    /\ configLabel \in {c \in HealthConfig : /\ c.Retries = 1
                                              /\ c.StartPeriod = 0
                                              /\ c.Interval = 1}
    /\ statusLabel = NoLabel
    /\ now = 0
    /\ ret = "nil"
    /\ history = <<>>
    /\ calls = 0
    /\ execState = "none"
    /\ ticks = [p \in Procs |-> IdleTick]
    /\ host = Host(TRUE, TRUE, FALSE, FALSE)
    /\ units = [m \in Managers |-> NoUnits]
    /\ sched = NoEvent
    /\ ctrSpec \in ContainerSpecs
    /\ proc = NoProc
    /\ trail = <<>>
    /\ flight = NoFlight

\* one more call of HealthCheck fits the bound of SpecProbe
MayProbe == calls < MaxProbeCalls

ProbeNext ==
    \/ MayProbe /\ HealthCheckSuccess
    \/ MayProbe /\ HealthCheckFailed
    \/ MayProbe /\ HealthCheckTimeout
    \/ MayProbe /\ HealthCheckCaptured
    \/ MayProbe /\ HealthCheckPreconditionError

\* calls of HealthCheck on a running container, for every test vector
SpecProbe == ProbeInit /\ [][ProbeNext]_vars

(* ------------------ the systemd scheduler of the probes ---------------- *)
\* rootlessutil.IsRootless: systemd-run gets --user and so talks to the
\* user's manager; without it, to the system manager
RunManager(h) == IF h.rootless THEN "user" ELSE "system"

\* dbus.NewSystemConnectionContext: every DBus request of the three
\* operations goes to the system manager, on a rootless host too
BusManager(h) == "system"

\* extractHealthcheck: the probe spec of the container, or nothing when the
\* label is absent, empty or does not decode
extractHealthcheck(label) ==
    IF label = NoConfigLabel \/ label = InvalidConfigLabel THEN <<>> ELSE <<label>>

shouldSkipHealthCheckSystemdAnyInterval(h, hc) ==
    IF ~h.systemd \/ h.disabled THEN TRUE
    ELSE \/ hc = <<>>
         \/ Len(hc[1].Test) = 0
         \/ hc[1].Test[1] = HealthCheckCmdNone

\* shouldSkipHealthCheckSystemd
shouldSkipHealthCheckSystemd(h, hc) ==
    IF ~h.systemd \/ h.disabled THEN TRUE
    ELSE \/ hc = <<>>
         \/ Len(hc[1].Test) = 0
         \/ hc[1].Test[1] = HealthCheckCmdNone
         \/ hc[1].Interval = 0

\* the head of the three operations: the stub of a build that is not Linux
\* returns at once; the Linux build returns when there is no probe spec or
\* shouldSkipHealthCheckSystemd says so
SkipsTimer(h, label) ==
    \/ ~h.linux
    \/ extractHealthcheck(label) = <<>>
    \/ shouldSkipHealthCheckSystemd(h, extractHealthcheck(label))

\* what an operation hands back: the units, its error, whether it made a
\* request to systemd
OpResult(u, err, acted) == [units |-> u, err |-> err, acted |-> acted]

\* systemd-run --unit <id> --on-unit-inactive=<interval>: a transient timer
\* and service appear in manager m, the timer started and the service not;
\* systemd-run fails when a unit of that name is loaded
SystemdRun(u, m) ==
    IF u[m] # NoUnits THEN OpResult(u, "systemd-run failed", TRUE)
    ELSE OpResult([u EXCEPT ![m] = [timer |-> "active", service |-> "inactive",
                                    ran |-> FALSE]],
                  "nil", TRUE)

\* the error of the three operations when the system bus refuses
DBusConnectError == "systemd DBUS connect error"

\* mutant: CreateTimer drops the errors of the connection and of systemd-run
CreateTimerUnchecked(h, label, u) ==
    IF SkipsTimer(h, label) THEN OpResult(u, "nil", FALSE)
    ELSE IF h.bus # "ok" THEN OpResult(u, "nil", TRUE)
    ELSE OpResult(SystemdRun(u, RunManager(h)).units, "nil", TRUE)

\* CreateTimer
CreateTimer(h, label, u) ==
    IF SkipsTimer(h, label) THEN OpResult(u, "nil", FALSE)
    ELSE IF h.bus # "ok" THEN OpResult(u, DBusConnectError, TRUE)
    ELSE SystemdRun(u, RunManager(h))

\* StartTimer: RestartUnit of <id>.service in mode fail; the request is
\* rejected when the manager has no such unit; a job that ends with done has
\* started the service, any other result is an error
StartTimer(h, label, u) ==
    IF SkipsTimer(h, label) THEN OpResult(u, "nil", FALSE)
    ELSE IF h.bus # "ok" THEN OpResult(u, DBusConnectError, TRUE)
    ELSE LET m == BusManager(h)
         IN  IF u[m].service = "absent" THEN OpResult(u, "restart rejected", TRUE)
             ELSE IF h.job # "done"
             THEN OpResult(u, "unexpected systemd restart result", TRUE)
             ELSE OpResult([u EXCEPT ![m].service = "running"], "nil", TRUE)

\* RemoveTransientHealthCheckFiles: StopUnit of the timer and of the service,
\* ResetFailedUnit of the service; a stopped transient unit is unloaded; a
\* rejected request and a job result other than done are passed over, a
\* refused connection is returned
RemoveTransientHealthCheckFiles(h, label, u) ==
    IF SkipsTimer(h, label) THEN OpResult(u, "nil", FALSE)
    ELSE IF h.bus # "ok" THEN OpResult(u, DBusConnectError, TRUE)
    ELSE IF h.job # "done" THEN OpResult(u, "nil", TRUE)
    ELSE OpResult([u EXCEPT ![BusManager(h)] = NoUnits], "nil", TRUE)

\* the hook of pause: stop the timer unit, remove nothing
StopTimerUnit(h, label, u) ==
    IF SkipsTimer(h, label) \/ u[RunManager(h)].timer = "absent"
    THEN OpResult(u, "nil", FALSE)
    ELSE OpResult([u EXCEPT ![RunManager(h)].timer = "inactive"], "nil", TRUE)

\* the hook of unpause: start the timer unit
StartTimerUnit(h, label, u) ==
    IF SkipsTimer(h, label) \/ u[RunManager(h)].timer = "absent"
    THEN OpResult(u, "nil", FALSE)
    ELSE OpResult([u EXCEPT ![RunManager(h)].timer = "active"], "nil", TRUE)

\* the hook of start: CreateTimer, then StartTimer; an error of CreateTimer
\* goes to the start path
StartHook(h, label, u) ==
    LET c == CreateTimer(h, label, u)
        s == StartTimer(h, label, c.units)
    IN  IF c.err # "nil" THEN c
        ELSE OpResult(s.units, s.err, c.acted \/ s.acted)

Event(name, r) == [event |-> name, err |-> r.err, acted |-> r.acted]

\* what the container events leave alone
hcVars == <<configLabel, statusLabel, now, ret, history, calls, execState, ticks, host,
            ctrSpec, proc, trail, flight>>

\* nerdctl start: the task becomes Running, then the hook of start
ContainerStart ==
    /\ taskStatus \in {NoTask, "stopped"}
    /\ taskStatus' = Running
    /\ LET r == StartHook(host, configLabel, units)
       IN  units' = r.units /\ sched' = Event("start", r)
    /\ UNCHANGED hcVars

\* nerdctl stop, nerdctl kill: the task exits, then RemoveTransient
ContainerStop ==
    /\ taskStatus \in {Running, "paused"}
    /\ taskStatus' = "stopped"
    /\ LET r == RemoveTransientHealthCheckFiles(host, configLabel, units)
       IN  /\ units' = r.units
           /\ \E e \in {"stop", "kill"} : sched' = Event(e, r)
    /\ UNCHANGED hcVars

\* nerdctl pause: the task is paused, then the timer unit is stopped
ContainerPause ==
    /\ taskStatus = Running
    /\ taskStatus' = "paused"
    /\ LET r == StopTimerUnit(host, configLabel, units)
       IN  units' = r.units /\ sched' = Event("pause", r)
    /\ UNCHANGED hcVars

\* nerdctl unpause: the task runs again, then the timer unit is started
ContainerUnpause ==
    /\ taskStatus = "paused"
    /\ taskStatus' = Running
    /\ LET r == StartTimerUnit(host, configLabel, units)
       IN  units' = r.units /\ sched' = Event("unpause", r)
    /\ UNCHANGED hcVars

\* nerdctl rm of a container without a running task: RemoveTransient
ContainerRemove ==
    /\ taskStatus \in {NoTask, "stopped"}
    /\ taskStatus' = NoContainer
    /\ LET r == RemoveTransientHealthCheckFiles(host, configLabel, units)
       IN  units' = r.units /\ sched' = Event("rm", r)
    /\ UNCHANGED hcVars

\* systemd, OnUnitInactiveSec: the interval after the service was last
\* deactivated the started timer starts it again; a service that was never
\* active gives the timer nothing to count from
TimerElapses(m) ==
    /\ units[m].timer = "active"
    /\ units[m].service \in {"inactive", "failed"}
    /\ units[m].ran
    /\ units' = [units EXCEPT ![m].service = "running"]
    /\ UNCHANGED <<taskStatus, sched>>
    /\ UNCHANGED hcVars

\* the state of the service of manager m after its command exited
ServiceExited(m, status) ==
    [units EXCEPT ![m].service = IF status = 0 THEN "inactive" ELSE "failed",
                  ![m].ran = TRUE]

\* the service runs nerdctl container healthcheck <id> and a precondition of
\* HealthCheck fails
ServiceTickRefused(m) ==
    /\ units[m].service = "running"
    /\ taskStatus = NoContainer \/ PreconditionError(taskStatus, configLabel) # "nil"
    /\ ret' = IF taskStatus = NoContainer THEN NoContainer
              ELSE PreconditionError(taskStatus, configLabel)
    /\ units' = ServiceExited(m, 1)
    /\ proc' = NoProc
    /\ UNCHANGED <<taskStatus, configLabel, statusLabel, now, history, calls,
                   execState, ticks, host, sched, ctrSpec, trail, flight>>

\* the service runs nerdctl container healthcheck <id> and HealthCheck
\* applies the result of the probe
ServiceTick(m) ==
    /\ units[m].service = "running"
    /\ taskStatus # NoContainer
    /\ PreconditionError(taskStatus, configLabel) = "nil"
    /\ Len(history) < MaxSchedProbes
    /\ \E r \in {ProbeResult(FALSE, 0, now), ProbeResult(FALSE, 1, now),
                  ProbeResult(TRUE, 1, now)} :
          /\ statusLabel' = updateHealthStatus(
                 statusLabel, configLabel, r.exitCode,
                 IF r.timedOut THEN "health check timed out: out" ELSE "out",
                 r.at, r.at)
          /\ trail' = Append(trail, Applying(
                 statusLabel, "out", r.exitCode,
                 IF r.timedOut THEN "health check timed out: out" ELSE "out",
                 r.at, r.at, statusLabel'))
          /\ ret' = IF r.timedOut THEN "health check timed out after"
                    ELSE IF r.exitCode # 0 THEN "health check failed with code"
                    ELSE "nil"
          /\ history' = Append(history, r)
          /\ units' = ServiceExited(m, IF r.timedOut THEN 1 ELSE r.exitCode)
    /\ execState' = "started"
    /\ proc' = Process
    /\ UNCHANGED <<taskStatus, configLabel, now, calls, ticks, host, sched, ctrSpec,
                   flight>>

\* a container created on any host, with any probe spec label
SchedInit ==
    /\ taskStatus = NoTask
    /\ configLabel \in {NoConfigLabel, InvalidConfigLabel}
                       \cup {c \in HealthConfig :
                                /\ c.Test \in {<<>>, <<"NONE">>, <<"CMD-SHELL", "exe", "arg">>}
                                /\ c.Retries = 1
                                /\ c.StartPeriod = 0}
    /\ statusLabel = NoLabel
    /\ now = 0
    /\ ret = "nil"
    /\ history = <<>>
    /\ calls = 0
    /\ execState = "none"
    /\ ticks = [p \in Procs |-> IdleTick]
    /\ host \in Hosts
    /\ units = [m \in Managers |-> NoUnits]
    /\ sched = NoEvent
    /\ ctrSpec = DefaultSpec
    /\ proc = NoProc
    /\ trail = <<>>
    /\ flight = NoFlight

SchedNext ==
    \/ ContainerStart
    \/ ContainerStop
    \/ ContainerPause
    \/ ContainerUnpause
    \/ ContainerRemove
    \/ \E m \in Managers : TimerElapses(m)
    \/ \E m \in Managers : ServiceTickRefused(m)
    \/ \E m \in Managers : ServiceTick(m)

\* the container events with their hooks, and systemd running the units
SpecSched == SchedInit /\ [][SchedNext]_vars

\* systemd does start a service whose timer elapsed, and a started
\* nerdctl container healthcheck does run to its end
SpecSchedFair ==
    /\ SchedInit /\ [][SchedNext]_vars
    /\ \A m \in Managers : WF_vars(TimerElapses(m))
    /\ \A m \in Managers : WF_vars(ServiceTickRefused(m))
    /\ \A m \in Managers : WF_vars(ServiceTick(m))

(* ------------- the three scheduler operations, one by one -------------- *)
\* the states the units of a container can be in: none, made by CreateTimer,
\* started by StartTimer, after a probe that failed, with the timer stopped
UnitStates ==
    {NoUnits,
     [timer |-> "active", service |-> "inactive", ran |-> FALSE],
     [timer |-> "active", service |-> "running", ran |-> FALSE],
     [timer |-> "active", service |-> "failed", ran |-> TRUE],
     [timer |-> "inactive", service |-> "inactive", ran |-> TRUE]}

\* what sched holds after a call of operation name: its result, the units
\* it found, and the call before it
Called(name, r) ==
    [event |-> name, err |-> r.err, acted |-> r.acted, pre |-> units,
     last |-> <<[event |-> sched.event, err |-> sched.err]>>]

\* what the calls of the operations leave alone
opVars == <<taskStatus, configLabel, statusLabel, now, ret, history, calls, execState,
            ticks, host, ctrSpec, proc, trail, flight>>

\* a call of CreateTimer
CallCreateTimer ==
    /\ LET r == CreateTimer(host, configLabel, units)
       IN  units' = r.units /\ sched' = Called("CreateTimer", r)
    /\ UNCHANGED opVars

\* a call of StartTimer
CallStartTimer ==
    /\ LET r == StartTimer(host, configLabel, units)
       IN  units' = r.units /\ sched' = Called("StartTimer", r)
    /\ UNCHANGED opVars

\* a call of RemoveTransientHealthCheckFiles
CallRemoveTransient ==
    /\ LET r == RemoveTransientHealthCheckFiles(host, configLabel, units)
       IN  units' = r.units /\ sched' = Called("RemoveTransient", r)
    /\ UNCHANGED opVars

\* a running container with any probe spec label on any host, its units in
\* any state in the manager systemd-run talks to
OpsInit ==
    /\ taskStatus = Running
    /\ configLabel \in {NoConfigLabel}
                       \cup {c \in HealthConfig :
                                /\ c.Test = <<"CMD-SHELL", "exe", "arg">>
                                /\ c.Retries = 1
                                /\ c.StartPeriod = 0}
    /\ statusLabel = NoLabel
    /\ now = 0
    /\ ret = "nil"
    /\ history = <<>>
    /\ calls = 0
    /\ execState = "none"
    /\ ticks = [p \in Procs |-> IdleTick]
    /\ host \in FaultyHosts
    /\ \E s \in UnitStates :
          units = [m \in Managers |-> IF m = RunManager(host) THEN s ELSE NoUnits]
    /\ sched = [event |-> "none", err |-> "nil", acted |-> FALSE, pre |-> units,
                last |-> <<>>]
    /\ ctrSpec = DefaultSpec
    /\ proc = NoProc
    /\ trail = <<>>
    /\ flight = NoFlight

OpsNext ==
    \/ CallCreateTimer
    \/ CallStartTimer
    \/ CallRemoveTransient

\* any sequence of calls of the three operations
SpecOps == OpsInit /\ [][OpsNext]_vars

(* --------------- HealthCheck at its select, step by step --------------- *)
\* the two label keys of the health check
HealthConfigLabel == "healthcheck/config"
HealthStatusLabel == "healthcheck/status"

\* the code of the exit status that the channel of process.Wait delivers when
\* the wait request itself failed; HealthCheck reads the code and drops the
\* error that comes with it
UnknownExitStatus == 255

\* label healthcheck/status holds a value that does not decode as a HealthStatus
InvalidStatusLabel == <<[undecodable |-> TRUE]>>

\* mutant: a stored status that does not decode is taken for no status
readHealthStatusFreshOnInvalid(label) ==
    [err |-> "nil", label |-> IF label = InvalidStatusLabel THEN NoLabel ELSE label]

\* updateHealthStatus, json.Unmarshal of the stored status: the error, and
\* the label the update starts from
readHealthStatus(label) ==
    IF label = InvalidStatusLabel
    THEN [err |-> "invalid health status", label |-> label]
    ELSE [err |-> "nil", label |-> label]

\* mutant: the labels that the update does not name are removed
SetLabelsReplacing(labels, update) ==
    [config |-> IF HealthConfigLabel \in DOMAIN update
                THEN update[HealthConfigLabel] ELSE NoConfigLabel,
     status |-> IF HealthStatusLabel \in DOMAIN update
                THEN update[HealthStatusLabel] ELSE NoLabel]

\* container.SetLabels: the labels that the update names take its values,
\* every other label stays as it is
SetLabels(labels, update) ==
    [config |-> IF HealthConfigLabel \in DOMAIN update
                THEN update[HealthConfigLabel] ELSE labels.config,
     status |-> IF HealthStatusLabel \in DOMAIN update
                THEN update[HealthStatusLabel] ELSE labels.status]

\* the error updateHealthStatus returns, or "nil": container.Info fails on a
\* cancelled context, then the stored status may not decode, then
\* container.SetLabels may fail
updateHealthStatusError(label, ctx, stored) ==
    IF ctx # "live" THEN "failed to get container info"
    ELSE IF readHealthStatus(label).err # "nil" THEN readHealthStatus(label).err
    ELSE IF ~stored THEN "failed to update container labels"
    ELSE "nil"

\* HealthCheck from its entry to the select: the preconditions pass, the exec
\* is created and started, process.Wait gives its channel, the timer of
\* time.After(config.Timeout) is armed
FlightStart ==
    /\ flight.pc \in {"idle", "returned"}
    /\ calls < MaxFlights
    /\ taskStatus # NoContainer
    /\ PreconditionError(taskStatus, configLabel) = "nil"
    /\ flight' = [NoFlight EXCEPT !.pc = "select", !.process = "running",
                                  !.timer = "armed", !.startTime = now]
    /\ calls' = calls + 1
    /\ execState' = "started"
    /\ proc' = Process
    /\ UNCHANGED <<taskStatus, configLabel, statusLabel, now, ret, history, trail,
                   ticks, host, units, sched, ctrSpec>>

\* what the steps around the select leave alone
flightVars == <<taskStatus, configLabel, statusLabel, ret, history, calls, execState,
                proc, trail, ticks, host, units, sched, ctrSpec>>

\* the probe process exits by itself; the goroutine of process.Wait puts its
\* exit status in the channel unless the channel already holds one
ProbeExits ==
    /\ flight.pc = "select"
    /\ flight.process = "running"
    /\ \E code \in ExitCodes :
          flight' = [flight EXCEPT !.process = "exited",
                                   !.waitC = IF flight.waitC = <<>>
                                             THEN <<code>> ELSE @]
    /\ UNCHANGED now
    /\ UNCHANGED flightVars

\* config.Timeout after the select was entered the channel of time.After
\* becomes ready
TimerFires ==
    /\ flight.pc = "select"
    /\ flight.timer = "armed"
    /\ flight' = [flight EXCEPT !.timer = "fired"]
    /\ now' = now + configLabel.Timeout
    /\ UNCHANGED flightVars

\* the caller cancels the context of the call
CtxCancel ==
    /\ flight.pc = "select"
    /\ flight.ctx = "live"
    /\ flight' = [flight EXCEPT !.ctx = "cancelled",
                                !.inFlightAtCancel = (flight.process = "running")]
    /\ UNCHANGED now
    /\ UNCHANGED flightVars

\* the wait request of process.Wait ends with the error of the cancelled
\* context: the channel delivers an exit status with that error
WaitAborts ==
    /\ flight.pc = "select"
    /\ flight.ctx = "cancelled"
    /\ flight.waitC = <<>>
    /\ flight' = [flight EXCEPT !.waitC = <<UnknownExitStatus>>]
    /\ UNCHANGED now
    /\ UNCHANGED flightVars

\* one branch of the select: the call of updateHealthStatus with the result
\* of the branch, and what HealthCheck returns after it
Selected(pc2, timer2, branch, timedOut, code, process2, kills2, okRet, errRet) ==
    /\ \E out \in Outputs, stored \in BOOLEAN :
          LET healthOutput == IF timedOut
                              THEN "health check timed out: " \o TrimSpace(out)
                              ELSE TrimSpace(out)
              err == updateHealthStatusError(statusLabel, flight.ctx, stored)
              written == updateHealthStatus(readHealthStatus(statusLabel).label,
                                            configLabel, code, healthOutput,
                                            flight.startTime, now)
              labels == SetLabels([config |-> configLabel, status |-> statusLabel],
                                  [k \in {HealthStatusLabel} |-> written])
          IN  /\ flight' = [flight EXCEPT !.pc = pc2, !.timer = timer2,
                                          !.branch = branch, !.process = process2,
                                          !.kills = kills2, !.updates = @ + 1,
                                          !.writes = IF err = "nil" THEN @ + 1 ELSE @,
                                          !.err = err]
              /\ IF err = "nil"
                 THEN /\ configLabel' = labels.config
                      /\ statusLabel' = labels.status
                      /\ trail' = Append(trail, Applying(statusLabel, out, code,
                                                         healthOutput, flight.startTime,
                                                         now, labels.status))
                      /\ history' = Append(history, ProbeResult(timedOut, code, now))
                      /\ ret' = okRet
                 ELSE /\ UNCHANGED <<configLabel, statusLabel, trail, history>>
                      /\ ret' = errRet
    /\ UNCHANGED <<taskStatus, now, calls, execState, proc, ticks, host, units, sched,
                   ctrSpec>>

\* select, case exitStatus := <-exitStatusC: the code of the exit status is
\* read, its error is not; the record is updated and HealthCheck returns
SelectCompletion ==
    /\ flight.pc = "select"
    /\ flight.waitC # <<>>
    /\ LET code == flight.waitC[1]
       IN  Selected("returned", flight.timer, "completion", FALSE, code,
                    flight.process, flight.kills,
                    IF code # 0 THEN "health check failed with code" ELSE "nil",
                    IF code # 0 THEN "failed to update health status"
                                ELSE "failed to update health status after success")

\* what process.Kill leaves of the probe: the kill request reaches the task
\* only on a context that is not cancelled; its error is dropped
killed(process, ctx) ==
    IF ctx = "live" /\ process = "running" THEN "killed" ELSE process

\* mutant: the timeout branch is taken only once the probe has exited
SelectTimeoutAfterExit ==
    /\ flight.pc = "select"
    /\ flight.timer = "fired"
    /\ flight.process # "running"
    /\ Selected("returned", flight.timer, "timeout", TRUE, 1,
                killed(flight.process, flight.ctx), flight.kills + 1,
                "health check timed out after",
                "failed to update health status after timeout")

\* mutant: the timeout branch does not return and the select runs again
SelectTimeoutFallsThrough ==
    /\ flight.pc = "select"
    /\ flight.timer = "fired"
    /\ Selected("select", "unset", "timeout", TRUE, 1,
                killed(flight.process, flight.ctx), flight.kills + 1,
                "health check timed out after",
                "failed to update health status after timeout")

\* select, case <-time.After(config.Timeout): SIGKILL to the exec, the record
\* is updated with exit code 1 and HealthCheck returns
SelectTimeout ==
    /\ flight.pc = "select"
    /\ flight.timer = "fired"
    /\ Selected("returned", flight.timer, "timeout", TRUE, 1,
                killed(flight.process, flight.ctx), flight.kills + 1,
                "health check timed out after",
                "failed to update health status after timeout")

\* a running container with a shell probe; its status label is absent or
\* holds a value that does not decode
FlightInit ==
    /\ taskStatus = Running
    /\ configLabel \in {c \in HealthConfig : /\ c.Test = <<"CMD-SHELL", "exe", "arg">>
                                              /\ c.StartPeriod = 0
                                              /\ c.Interval = 1}
    /\ statusLabel \in {NoLabel, InvalidStatusLabel}
    /\ now = 0
    /\ ret = "nil"
    /\ history = <<>>
    /\ calls = 0
    /\ execState = "none"
    /\ OtherInit

FlightNext ==
    \/ FlightStart
    \/ ProbeExits
    \/ TimerFires
    \/ CtxCancel
    \/ WaitAborts
    \/ SelectCompletion
    \/ SelectTimeout

\* calls of HealthCheck, one after another, each with its probe, its timer
\* and its context
SpecFlight == FlightInit /\ [][FlightNext]_vars

\* time passes, so an armed timer fires, and a select with a ready case
\* takes one; the probe need not exit and the caller need not cancel
SpecFlightFair ==
    /\ FlightInit /\ [][FlightNext]_vars
    /\ WF_vars(TimerFires)
    /\ WF_vars(SelectCompletion \/ SelectTimeout)

(* ------------- ticks and scheduler operations on one container --------- *)
\* a running container with a shell probe or no probe spec at all, on any
\* host, before any call
LabelsInit ==
    /\ taskStatus = Running
    /\ configLabel \in {NoConfigLabel}
                       \cup {c \in HealthConfig :
                                /\ c.Test = <<"CMD-SHELL", "exe", "arg">>
                                /\ c.Retries = 1
                                /\ c.StartPeriod = 0}
    /\ statusLabel = NoLabel
    /\ now = 0
    /\ ret = "nil"
    /\ history = <<>>
    /\ calls = 0
    /\ execState = "none"
    /\ ticks = [p \in Procs |-> IdleTick]
    /\ host \in Hosts
    /\ units = [m \in Managers |-> NoUnits]
    /\ sched = [event |-> "none", err |-> "nil", acted |-> FALSE, pre |-> units,
                last |-> <<>>]
    /\ ctrSpec = DefaultSpec
    /\ proc = NoProc
    /\ trail = <<>>
    /\ flight = NoFlight

LabelsNext ==
    \/ FlightStart
    \/ ProbeExits
    \/ TimerFires
    \/ CtxCancel
    \/ WaitAborts
    \/ SelectCompletion
    \/ SelectTimeout
    \/ calls < MaxFlights /\ flight.pc # "select" /\ HealthCheckPreconditionError
    \/ CallCreateTimer
    \/ CallStartTimer
    \/ CallRemoveTransient

\* the calls of HealthCheck and the calls of the three scheduler operations,
\* in any order
SpecLabels == LabelsInit /\ [][LabelsNext]_vars

(* ------------- the unit names, for several containers ------------------ *)
\* the ids of the containers of the host
ContainerIDs == {"1a2b", "3c4d", "5e6f"}

\* what rand.Int gives, in hex
RandomSuffixes == {"7a", "7b"}

\* hcUnitName: the names it can return; with bare the container id, without
\* it the id and a random suffix
hcUnitName(containerID, bare) ==
    IF bare THEN {containerID}
    ELSE {containerID \o "-" \o x : x \in RandomSuffixes}

\* a unit an operation addresses: the manager asked, and the unit name
Target(m, unit) == [manager |-> m, unit |-> unit]

\* the units of base name hcName that systemd-run makes
TimerAndService(hcName) == {hcName \o ".timer", hcName \o ".service"}

\* in SpecNames units is the set of the loaded units, each with its manager,
\* its name and the container it was made for, and sched is the last call:
\* the operation, the container, its error, the units it addressed and the
\* units loaded before it
NamedCall(name, id, err, targets) ==
    [event |-> name, id |-> id, err |-> err, targets |-> targets, pre |-> units]

\* the loaded units among targets
Loaded(targets) == {u \in units : Target(u.manager, u.unit) \in targets}

\* what the calls of the operations leave alone
nameVars == <<taskStatus, configLabel, statusLabel, now, ret, history, calls, execState,
              ticks, host, ctrSpec, proc, trail, flight>>

\* CreateTimer on container id: systemd-run --unit hcName in the manager that
\* systemd-run talks to; it fails when a unit of that name is loaded
CreateTimerOf(id) ==
    /\ ~SkipsTimer(host, configLabel)
    /\ \E hcName \in hcUnitName(id, TRUE) :
          LET targets == {Target(RunManager(host), n) : n \in TimerAndService(hcName)}
          IN  IF Loaded(targets) # {}
              THEN /\ units' = units
                   /\ sched' = NamedCall("CreateTimer", id, "systemd-run failed", targets)
              ELSE /\ units' = units \cup {[manager |-> t.manager, unit |-> t.unit,
                                            owner |-> id] : t \in targets}
                   /\ sched' = NamedCall("CreateTimer", id, "nil", targets)
    /\ UNCHANGED nameVars

\* StartTimer on container id: RestartUnit of hcName.service on the system bus
StartTimerOf(id) ==
    /\ ~SkipsTimer(host, configLabel)
    /\ \E hcName \in hcUnitName(id, TRUE) :
          LET targets == {Target(BusManager(host), hcName \o ".service")}
          IN  sched' = NamedCall("StartTimer", id,
                                 IF Loaded(targets) = {} THEN "restart rejected"
                                                         ELSE "nil",
                                 targets)
    /\ UNCHANGED units
    /\ UNCHANGED nameVars

\* RemoveTransientHealthCheckFiles on container id: StopUnit of hcName.timer
\* and hcName.service on the system bus; a stopped transient unit is unloaded
RemoveTransientOf(id) ==
    /\ ~SkipsTimer(host, configLabel)
    /\ \E hcName \in hcUnitName(id, TRUE) :
          LET targets == {Target(BusManager(host), n) : n \in TimerAndService(hcName)}
          IN  /\ units' = units \ Loaded(targets)
              /\ sched' = NamedCall("RemoveTransient", id, "nil", targets)
    /\ UNCHANGED nameVars

\* running containers with one probe spec that asks for scheduling, on a
\* host with systemd, as root or rootless; no unit is loaded
NamesInit ==
    /\ taskStatus = Running
    /\ configLabel \in {c \in HealthConfig : /\ c.Test = <<"CMD-SHELL", "exe", "arg">>
                                              /\ c.Retries = 1
                                              /\ c.StartPeriod = 0
                                              /\ c.Interval = 1}
    /\ statusLabel = NoLabel
    /\ now = 0
    /\ ret = "nil"
    /\ history = <<>>
    /\ calls = 0
    /\ execState = "none"
    /\ ticks = [p \in Procs |-> IdleTick]
    /\ host \in {h \in Hosts : h.systemd /\ ~h.disabled}
    /\ units = {}
    /\ sched = [event |-> "none", id |-> "", err |-> "nil", targets |-> {}, pre |-> {}]
    /\ ctrSpec = DefaultSpec
    /\ proc = NoProc
    /\ trail = <<>>
    /\ flight = NoFlight

NamesNext ==
    \/ \E id \in ContainerIDs : CreateTimerOf(id)
    \/ \E id \in ContainerIDs : StartTimerOf(id)
    \/ \E id \in ContainerIDs : RemoveTransientOf(id)

\* calls of the three operations on several containers of one host
SpecNames == NamesInit /\ [][NamesNext]_vars

(* ------------------------- reading the state -------------------------- *)
\* the record an observer of the container sees
Record == loadHealthStatus(statusLabel)

LastOf(h) == h[Len(h)]

\* a probe result that is not a success: non-zero exit, or timeout
IsFailure(r) == r.timedOut \/ r.exitCode # 0

\* the result was applied while now - task.startedAt < startPeriod
InStartPeriod(r) == r.at < configLabel.StartPeriod

\* the tick that led to this state applied a probe result
Applied == history # <<>>

\* this step is a tick that applies a probe result
Applies == Len(history') = Len(history) + 1

\* failing results at the end of h, since the most recent success
RECURSIVE TrailingFailures(_)
TrailingFailures(h) ==
    IF h = <<>> \/ ~IsFailure(LastOf(h))
    THEN 0
    ELSE 1 + TrailingFailures(SubSeq(h, 1, Len(h) - 1))

\* the same, counting only the failures applied outside the start period
RECURSIVE TrailingCountedFailures(_)
TrailingCountedFailures(h) ==
    IF h = <<>> \/ ~IsFailure(LastOf(h))
    THEN 0
    ELSE (IF InStartPeriod(LastOf(h)) THEN 0 ELSE 1)
         + TrailingCountedFailures(SubSeq(h, 1, Len(h) - 1))

\* the probe result that log entry i of the record was written for
ResultOfLogEntry(i) == history[Len(history) - Len(Record.Log) + i]

(* ------------------------------- claims ------------------------------- *)

\* C1 (as stated): in every reachable state, status healthy implies
\* failingStreak = 0.
C1_HealthyImpliesZeroStreak ==
    Record.Status = Healthy => Record.FailingStreak = 0

\* C1 (amended): in every reachable state, status healthy implies that
\* failingStreak is below the threshold max(1, retries); it is 0 after a
\* success and can be positive after failures below the threshold.
C1_HealthyImpliesStreakBelowThreshold ==
    Record.Status = Healthy =>
        /\ Record.FailingStreak >= 0
        /\ Record.FailingStreak < Max(1, configLabel.Retries)

\* a healthy record with a positive streak: one failure below the threshold
C1_Witness ==
    /\ Applied
    /\ Record.Status = Healthy
    /\ Record.FailingStreak = 1
    /\ IsFailure(LastOf(history))

\* C2: after any number of ticks, in any mix of successes, failures and
\* timeouts, the persisted record's log has at most 5 entries.
C2_LogAtMostFive ==
    Len(Record.Log) <= 5

\* more than 5 probes of all three kinds were applied and the log holds 5
C2_Witness ==
    /\ Len(history) > 5
    /\ Len(Record.Log) = 5
    /\ \E i \in 1..Len(history) : history[i].timedOut
    /\ \E i \in 1..Len(history) : ~IsFailure(history[i])
    /\ \E i \in 1..Len(history) : ~history[i].timedOut /\ history[i].exitCode # 0

\* C3: a probe that exits 0 leaves the record healthy with failingStreak 0,
\* whatever the status was before and whether or not the start period has
\* elapsed.
C3_SuccessSetsHealthy ==
    (Applied /\ ~IsFailure(LastOf(history))) =>
        /\ Record.Status = Healthy
        /\ Record.FailingStreak = 0

\* a success inside the start period, applied to a record that one failure
\* with retries = 1 had made unhealthy
C3_Witness ==
    /\ configLabel.Retries = 1
    /\ Len(history) = 2
    /\ IsFailure(history[1])
    /\ ~IsFailure(history[2])
    /\ InStartPeriod(history[2])
    /\ Record.Status = Healthy
    /\ Record.FailingStreak = 0

\* C4: after a failing probe applied outside the start period, the status is
\* unhealthy exactly when the incremented failingStreak is >= max(1, retries);
\* with retries = 0 one failure makes the container unhealthy, and with
\* retries = N > 1 it is not unhealthy before the N-th consecutive failure.
C4_UnhealthyExactlyAtThreshold ==
    (Applied /\ IsFailure(LastOf(history)) /\ ~InStartPeriod(LastOf(history))) =>
        /\ (Record.Status = Unhealthy
              <=> Record.FailingStreak >= Max(1, configLabel.Retries))
        /\ (configLabel.Retries = 0 => Record.Status = Unhealthy)
        /\ (configLabel.Retries > 1
              /\ TrailingFailures(history) < configLabel.Retries
              => Record.Status # Unhealthy)

\* retries = 0: the first failure, outside the start period, gives unhealthy
C4_Witness ==
    /\ configLabel.Retries = 0
    /\ Len(history) = 1
    /\ IsFailure(history[1])
    /\ ~InStartPeriod(history[1])
    /\ Record.Status = Unhealthy
    /\ Record.FailingStreak = 1

\* C5 (as stated): a failing probe whose incremented failingStreak is below
\* the retry threshold leaves the status as it was; starting stays starting,
\* healthy stays healthy, and a failure never rewrites the status to healthy.
C5_FailureBelowThresholdKeepsStatus ==
    [][(Applies /\ IsFailure(LastOf(history'))
          /\ Record'.FailingStreak < Max(1, configLabel.Retries))
        => Record'.Status = Record.Status]_vars

\* C6 (as stated): failingStreak equals the number of consecutive failing
\* probes applied outside the start period since the most recent success
\* (or since record creation); it is never negative and not capped by the
\* log size.
C6_StreakCountsFailuresOutsideStartPeriod ==
    Record.FailingStreak = TrailingCountedFailures(history)

\* C7 (as stated): a failing probe applied while now - task.startedAt <
\* startPeriod does not count: failingStreak is not incremented and the
\* status is not changed.
C7_FailureInStartPeriodDoesNotCount ==
    [][(Applies /\ IsFailure(LastOf(history')) /\ InStartPeriod(LastOf(history')))
        => /\ Record'.FailingStreak = Record.FailingStreak
           /\ Record'.Status = Record.Status]_vars

\* C8 (as stated): the status is starting if and only if no success has been
\* recorded and every failure occurred inside the start period.
C8_StartingIffOnlyGraceFailures ==
    Record.Status = Starting
        <=> \A i \in 1..Len(history) :
                IsFailure(history[i]) /\ InStartPeriod(history[i])

\* C9: with retries = 2, no start period and no prior record, two successive
\* failing probes give healthy with failingStreak 1 after the first and
\* unhealthy with failingStreak 2 after the second.
C9_TwoFailuresWithRetriesTwo ==
    (/\ configLabel.Retries = 2
     /\ configLabel.StartPeriod = 0
     /\ Applied
     /\ \A i \in 1..Len(history) : IsFailure(history[i])) =>
        /\ (Len(history) = 1 =>
              Record.Status = Healthy /\ Record.FailingStreak = 1)
        /\ (Len(history) = 2 =>
              Record.Status = Unhealthy /\ Record.FailingStreak = 2)

\* the state after the second of two failing probes with retries = 2
C9_Witness ==
    /\ configLabel.Retries = 2
    /\ configLabel.StartPeriod = 0
    /\ Len(history) = 2
    /\ IsFailure(history[1])
    /\ IsFailure(history[2])
    /\ Record.Status = Unhealthy
    /\ Record.FailingStreak = 2
    /\ Len(Record.Log) = 2

\* C10 (as stated): the log entry of a probe that did not finish within the
\* timeout has exitCode -1, and only such an entry has exitCode -1.
C10_TimeoutLoggedAsMinusOne ==
    \A i \in 1..Len(Record.Log) :
        ResultOfLogEntry(i).timedOut <=> Record.Log[i].ExitCode = -1

\* this step is a call of HealthCheck
Calls == calls' = calls + 1

\* C11: whenever HealthCheck returns a probe-failure error (non-zero exit or
\* timeout), the record is already persisted with that probe's log entry:
\* who reads the status label after the call sees the failure.
C11_FailureRecordedBeforeError ==
    ret \in {"health check failed with code", "health check timed out after"} =>
        /\ Applied
        /\ Record.Log # <<>>
        /\ LET r == LastOf(history)
               e == LastOf(Record.Log)
           IN  /\ IsFailure(r)
               /\ r.timedOut = (ret = "health check timed out after")
               /\ e.ExitCode # 0
               /\ e.End = r.at
        /\ Record.FailingStreak >= 1
        /\ Record.Status # Starting

\* a timeout error was returned and the record shows the timed-out probe
C11_Witness ==
    /\ ret = "health check timed out after"
    /\ Applied
    /\ LastOf(history).timedOut
    /\ Record.Log # <<>>
    /\ LastOf(Record.Log).Output = "health check timed out: out"

C13_FirstFailingPrecondition ==
    [][(Calls /\ taskStatus # NoContainer) =>
        /\ taskStatus = NoTask => ret' = "failed to get container task"
        /\ taskStatus \notin {NoTask, Running} =>
              ret' \in {"container is not running",
                        "failed to get container status"}
        /\ (taskStatus = Running /\ configLabel = NoConfigLabel) =>
              ret' \in {"container has no health check configured",
                        "failed to get container status",
                        "failed to get container info"}
        /\ (taskStatus = Running /\ configLabel = InvalidConfigLabel) =>
              ret' \in {"invalid health check configuration",
                        "failed to get container status",
                        "failed to get container info"}
        /\ (taskStatus = Running /\ configLabel \in HealthConfig
              /\ prepareProcessSpec(configLabel, ctrSpec).err # "nil") =>
              ret' \in {prepareProcessSpec(configLabel, ctrSpec).err,
                        "failed to get container status",
                        "failed to get container info"}]_vars

\* a stopped container without a config label reported "not running"
C13_Witness ==
    /\ calls > 0
    /\ taskStatus = "stopped"
    /\ configLabel = NoConfigLabel
    /\ ret = "container is not running"

\* C14: a tick that ends with a precondition error or an exec create/start
\* failure leaves the status label as it was, a precondition error starts no
\* exec, and no tick on a task that is not running changes the record.
C14_FailedTickLeavesRecord ==
    [][Calls =>
        /\ ret' \in PreconditionErrors \cup ExecErrors => statusLabel' = statusLabel
        /\ ret' \in PreconditionErrors => execState' = "none"
        /\ taskStatus # Running => statusLabel' = statusLabel /\ execState' = "none"]_vars

\* a tick on a paused task that has a record: the record is still there
C14_Witness ==
    /\ calls > 1
    /\ taskStatus = "paused"
    /\ ret = "container is not running"
    /\ statusLabel # NoLabel
    /\ execState = "none"

\* the label that applying the results of h one after another, in order,
\* to an absent label gives
RECURSIVE AppliedInOrder(_)
AppliedInOrder(h) ==
    IF h = <<>> THEN NoLabel
    ELSE LET r == LastOf(h)
         IN  updateHealthStatus(AppliedInOrder(SubSeq(h, 1, Len(h) - 1)),
                                configLabel, r.exitCode,
                                IF r.timedOut THEN "health check timed out: out"
                                              ELSE "out",
                                r.at, r.at)

\* C15 (as stated): at most one probe of the container is in flight at any
\* instant, also when several ticks are started concurrently.
C15_AtMostOneProbeInFlight ==
    Cardinality(InFlight) <= 1

\* C16 (as stated): under any interleaving of concurrent ticks, once every
\* tick has returned the record equals the one that applying the results one
\* after another in completion order gives: no update is lost.
C16_ResultsAppliedInCompletionOrder ==
    Active = {} => statusLabel = AppliedInOrder(history)

(* ------------------- claims on the systemd scheduler ------------------- *)
\* the probe spec asks for scheduling and the host has systemd to do it
Schedulable == ~SkipsTimer(host, configLabel)

\* a timer unit of the container is started, in some manager
TimerActive == \E m \in Managers : units[m].timer = "active"

\* a timer unit of the container is loaded, in some manager
TimerExists == \E m \in Managers : units[m].timer # "absent"

\* the cases in which the three operations are to do nothing
NoOpCase ==
    \/ ~host.linux
    \/ ~host.systemd
    \/ host.disabled
    \/ configLabel = NoConfigLabel
    \/ /\ configLabel \in HealthConfig
       /\ \/ configLabel.Test = <<>>
          \/ configLabel.Test[1] = HealthCheckCmdNone
          \/ configLabel.Interval = 0

\* C20: with no probe spec label, an empty test or one that starts with NONE,
\* interval 0, no systemd (every build that is not Linux included) or
\* DISABLE_HC_SYSTEMD=true, CreateTimer, StartTimer and RemoveTransient
\* return success and make no request to systemd: no unit is created,
\* started or stopped.
C20_NoOpWithoutSchedulableSpec ==
    NoOpCase /\ sched.event \in {"start", "stop", "kill", "rm"}
        => /\ sched.err = "nil"
           /\ ~sched.acted
           /\ \A m \in Managers : units[m] = NoUnits

\* CreateTimer, StartTimer and then RemoveTransient have run on a container
\* with interval 0 on a Linux host with systemd
C20_Witness ==
    /\ sched.event = "kill"
    /\ host.linux /\ host.systemd /\ ~host.disabled
    /\ configLabel \in HealthConfig
    /\ configLabel.Test = <<"CMD-SHELL", "exe", "arg">>
    /\ configLabel.Interval = 0
    /\ sched.err = "nil"

\* C17 (as stated, for a probe spec that asks for scheduling): after any
\* sequence of container events with their hooks, a timer unit of the
\* container is active exactly when the task is Running; no timer unit is
\* left after stop, kill or rm, and none exists after create alone.
C17_TimerActiveIffRunning ==
    Schedulable
        => /\ TimerActive <=> taskStatus = Running
           /\ sched.event \in {"create", "stop", "kill", "rm"} => ~TimerExists

\* C18 (as stated): for a started container with interval > 0 on a host with
\* systemd, a tick is eventually applied and another one after each, for as
\* long as the task is Running; with a probe that always succeeds the status
\* becomes healthy.
C18_TimerKeepsFiring ==
    /\ \A k \in 0..(MaxSchedProbes - 1) :
          (Schedulable /\ taskStatus = Running /\ Len(history) = k)
              ~> (Len(history) > k \/ taskStatus # Running)
    /\ (Schedulable /\ taskStatus = Running)
           ~> \/ statusLabel # NoLabel /\ Record.Status = Healthy
              \/ \E i \in 1..Len(history) : IsFailure(history[i])
              \/ taskStatus # Running

\* C19 (as stated): pause stops the timer and removes no unit, no probe is
\* recorded while the container is paused, and after unpause the timer-driven
\* probes resume: a new log entry is eventually recorded.
C19_PauseHaltsUnpauseResumes ==
    /\ [](Schedulable /\ sched.event = "pause" /\ sched.err = "nil"
            => /\ ~TimerActive
               /\ units[RunManager(host)].timer = "inactive"
               /\ units[RunManager(host)].service # "absent")
    /\ [][taskStatus = "paused" /\ taskStatus' = "paused"
            => statusLabel' = statusLabel]_vars
    /\ \A k \in 0..(MaxSchedProbes - 1) :
          (Schedulable /\ sched.event = "unpause" /\ taskStatus = Running
               /\ Len(history) = k)
              ~> (Len(history) > k \/ taskStatus # Running)

\* the operation that has just been called was also the call before it
CalledTwice == sched.last # <<>> /\ sched.last[1].event = sched.event

\* C21 (as stated): RemoveTransient never returns an error caused by DBus,
\* a refused connection included.
C21_RemoveSwallowsDBusErrors ==
    sched.event = "RemoveTransient" => sched.err = "nil"

\* C22 (as stated): StartTimer restarts the timer unit of the container; it
\* returns success exactly when the request is taken and the job ends with
\* done, and then the timer is started and the service is as it was.
C22_StartTimerRestartsTimerUnit ==
    sched.event = "StartTimer" /\ Schedulable /\ host.bus = "ok"
        => LET m == RunManager(host)
           IN  /\ sched.err = "nil"
                     <=> sched.pre[m].timer # "absent" /\ host.job = "done"
               /\ sched.err = "nil"
                     => /\ units[m].timer = "active"
                        /\ units[m].service = sched.pre[m].service
               /\ sched.err # "nil" => units = sched.pre

\* C23 (as stated): a second call of the same operation gives the result and
\* the units of the first; CreateTimer succeeds when units exist, and
\* RemoveTransient and StartTimer succeed when there are none.
C23_OperationsIdempotent ==
    /\ CalledTwice => sched.err = sched.last[1].err /\ units = sched.pre
    /\ /\ sched.event = "CreateTimer"
       /\ host.bus = "ok"
       /\ sched.pre[RunManager(host)] # NoUnits
       => sched.err = "nil"
    /\ /\ sched.event \in {"StartTimer", "RemoveTransient"}
       /\ host.bus = "ok" /\ host.job = "done"
       /\ \A m \in Managers : sched.pre[m] = NoUnits
       => sched.err = "nil"

(* --------------- claims on the output, the command, the log ------------ *)
\* str ends with suffix
EndsWith(str, suffix) ==
    /\ Len(str) >= Len(suffix)
    /\ SubSeq(str, Len(str) - Len(suffix) + 1, Len(str)) = suffix

\* the log entry the i-th applied result left at the end of the log
StoredEntry(i) == LastOf(trail[i].after[1].Log)

\* C24 (as stated): every stored output has at most MaxOutputBytes bytes;
\* when the trimmed output of the probe was longer the stored one ends with
\* [truncated], else it is the trimmed output (after the words of a timeout,
\* for a probe that timed out).
C24_StoredOutputBounded ==
    \A i \in 1..Len(trail) :
       LET trimmed == TrimSpace(trail[i].captured)
           stored == StoredEntry(i).Output
       IN  /\ Len(stored) <= MaxOutputBytes
           /\ Len(trimmed) > MaxOutputBytes => EndsWith(stored, "[truncated]")
           /\ Len(trimmed) <= MaxOutputBytes
                 => stored \in {trimmed, "health check timed out: " \o trimmed}

\* C25: the process of every probe spec that resolves to a command has the
\* env and the cwd of the container's spec, unchanged: no variable added,
\* removed or overwritten, no cwd defaulted.
C25_EnvAndCwdVerbatim ==
    proc # NoProc
        => /\ proc[1].env = ctrSpec.Env
           /\ proc[1].cwd = ctrSpec.Cwd

\* a probe ran in a container whose spec has no env and an empty cwd
C25_Witness ==
    /\ proc # NoProc
    /\ execState = "started"
    /\ ctrSpec.Env = <<>>
    /\ ctrSpec.Cwd = ""

\* the strings of seq with one space between them
RECURSIVE SpaceJoined(_)
SpaceJoined(seq) ==
    IF Len(seq) = 0 THEN ""
    ELSE IF Len(seq) = 1 THEN seq[1]
    ELSE SpaceJoined(SubSeq(seq, 1, Len(seq) - 1)) \o " " \o seq[Len(seq)]

\* C26: a test vector that resolves to a command gives this argv: CMD, exe,
\* arg... gives exe, arg...; CMD-SHELL, s1..sn gives /bin/sh, -c and s1..sn
\* joined by single spaces; a vector whose first element is no sentinel is
\* the argv, and always resolves.
C26_ArgvOfTestVector ==
    LET test == configLabel.Test
    IN  /\ proc # NoProc
           => /\ test[1] = "CMD" => proc[1].args = Tail(test)
              /\ test[1] = "CMD-SHELL"
                    => proc[1].args = <<"/bin/sh", "-c", SpaceJoined(Tail(test))>>
              /\ test[1] \notin {"NONE", "", "CMD", "CMD-SHELL"}
                    => proc[1].args = test
        /\ (calls > 0 /\ Len(test) > 0 /\ test[1] \notin {"NONE", "", "CMD", "CMD-SHELL"})
           => proc # NoProc

\* a CMD-SHELL vector of two strings ran as one script
C26_Witness ==
    /\ configLabel.Test = <<"CMD-SHELL", "exe", "arg">>
    /\ proc # NoProc
    /\ proc[1].args = <<"/bin/sh", "-c", "exe arg">>
    /\ execState = "started"

\* C27: no process has an empty argv or an empty argv[0]; CMD-SHELL without a
\* script or with one that is empty after trimming, CMD with nothing after
\* it, and a first argument that is the empty string all give the error
\* "no health check command specified", and no exec is started.
C27_NoEmptyCommand ==
    /\ proc # NoProc => Len(proc[1].args) > 0 /\ proc[1].args[1] # ""
    /\ (calls > 0 /\ configLabel.Test \in {<<"CMD-SHELL">>, <<"CMD-SHELL", " ">>,
                                           <<"CMD">>, <<"CMD", "">>})
       => /\ ret = "no health check command specified"
          /\ execState = "none"
          /\ proc = NoProc
          /\ statusLabel = NoLabel

\* a call on a container whose script is one space returned the error
C27_Witness ==
    /\ calls > 0
    /\ configLabel.Test = <<"CMD-SHELL", " ">>
    /\ ret = "no health check command specified"
    /\ execState = "none"

\* C28 (as stated): a call on a running container whose test is NONE or
\* empty fails with the outcome of a container without a probe spec, "no
\* health check configured", and creates no record.
C28_NoneReportedAsNotConfigured ==
    (calls > 0 /\ configLabel.Test \in {<<"NONE">>, <<>>})
        => /\ ret = "container has no health check configured"
           /\ statusLabel = NoLabel

\* C28 (amended): a call on a running container whose test is NONE fails
\* with "no health check defined", one whose test is empty fails with "no
\* health check command specified"; no exec is started and no record is
\* created.
C28_NoneReportedByResolver ==
    (calls > 0 /\ configLabel.Test \in {<<"NONE">>, <<>>})
        => /\ ret = IF configLabel.Test = <<>>
                    THEN "no health check command specified"
                    ELSE "no health check defined"
           /\ execState = "none"
           /\ proc = NoProc
           /\ statusLabel = NoLabel

\* a call on a running container whose test is NONE has returned
C28_Witness ==
    /\ calls > 0
    /\ taskStatus = Running
    /\ configLabel.Test = <<"NONE">>
    /\ ret = "no health check defined"

\* C29: applying a result puts its entry at the end of the log and drops
\* only from the front: the new log is the last 5 of the old log followed by
\* the entry, which has the start, end, exit code and output of the probe.
C29_LogAppendsAndDropsFront ==
    \A i \in 1..Len(trail) :
       LET old == IF trail[i].before = NoLabel THEN <<>> ELSE trail[i].before[1].Log
           entry == [Start |-> trail[i].startTime, End |-> trail[i].endTime,
                     ExitCode |-> trail[i].exitCode, Output |-> trail[i].output]
           all == old \o <<entry>>
           new == trail[i].after[1].Log
       IN  /\ new = IF Len(all) <= 5 THEN all ELSE SubSeq(all, Len(all) - 4, Len(all))
           /\ new[Len(new)] = entry

\* a result was applied to a log of 5 entries whose first differs from the
\* rest, and the log after it starts with the second
C29_Witness ==
    \E i \in 1..Len(trail) :
       /\ trail[i].before # NoLabel
       /\ Len(trail[i].before[1].Log) = 5
       /\ trail[i].before[1].Log[1] # trail[i].before[1].Log[2]
       /\ trail[i].after[1].Log[1] = trail[i].before[1].Log[2]

\* the i-th and the j-th applied result met the same record with the same
\* result at the same time
SameInput(i, j) ==
    /\ trail[i].before = trail[j].before
    /\ trail[i].exitCode = trail[j].exitCode
    /\ trail[i].output = trail[j].output
    /\ trail[i].startTime = trail[j].startTime
    /\ trail[i].endTime = trail[j].endTime

C31_TimeoutCountsAsFailure ==
    [][(Applies /\ LastOf(history').timedOut) =>
        IF InStartPeriod(LastOf(history'))
        THEN /\ Record'.FailingStreak = Record.FailingStreak
             /\ Record'.Status = Record.Status
        ELSE /\ Record'.FailingStreak = Record.FailingStreak + 1
             /\ Record'.Status = Unhealthy
                   <=> Record'.FailingStreak >= Max(1, configLabel.Retries)]_vars

\* the value of a field of the record as it is marshalled: <<>> when the
\* record has no such field
Stamp(hs, field) == IF field \in DOMAIN hs THEN <<hs[field]>> ELSE <<>>

\* C34 (as stated): after every applied probe result the record has a start
\* and an end stamp, and they are the start and the end of that probe, which
\* are those of the last log entry.
C34_RecordStampsOfLastProbe ==
    Applied =>
        /\ Stamp(Record, "Start") = <<LastOf(Record.Log).Start>>
        /\ Stamp(Record, "End") = <<LastOf(Record.Log).End>>
        /\ LastOf(Record.Log).End = LastOf(history).at

\* C35: a failing probe applied to an unhealthy record leaves it unhealthy
\* and adds 1 to failingStreak, beyond the size of the log; only a success
\* makes an unhealthy record healthy, and it does; 7 failures with retries 1
\* give unhealthy with failingStreak 7 and a log of 5.
C35_UnhealthyStaysUnderFailures ==
    [][(Applies /\ Record.Status = Unhealthy) =>
        /\ IsFailure(LastOf(history'))
              => /\ Record'.Status = Unhealthy
                 /\ Record'.FailingStreak = Record.FailingStreak + 1
        /\ ~IsFailure(LastOf(history')) <=> Record'.Status = Healthy
        /\ (/\ configLabel.Retries = 1
            /\ Len(history') = 7
            /\ \A i \in 1..7 : IsFailure(history'[i]))
              => /\ Record'.FailingStreak = 7
                 /\ Len(Record'.Log) = 5]_vars

\* the seventh of 7 failing probes with retries 1 has been applied
C35_Witness ==
    /\ configLabel.Retries = 1
    /\ Len(history) = 7
    /\ \A i \in 1..7 : IsFailure(history[i])
    /\ Record.Status = Unhealthy
    /\ Record.FailingStreak = 7
    /\ Len(Record.Log) = 5

(* ------------------- claims on the scheduler operations ---------------- *)
\* C37: for a probe spec that asks for scheduling, CreateTimer returns the
\* connect error when the system bus refuses and the error of systemd-run
\* when systemd-run fails; it returns success only when the timer has been
\* made, and a call that fails leaves the units as they were.
C37_CreateTimerReportsFailure ==
    (sched.event = "CreateTimer" /\ Schedulable) =>
        /\ host.bus # "ok" => sched.err = DBusConnectError
        /\ (host.bus = "ok" /\ sched.pre[RunManager(host)] # NoUnits)
              => sched.err = "systemd-run failed"
        /\ sched.err = "nil" => units[RunManager(host)].timer = "active"
        /\ sched.err # "nil" => units = sched.pre

\* CreateTimer was called while the system bus refused connections, on a
\* container that had no units: it returned the error and there is no timer
C37_Witness ==
    /\ sched.event = "CreateTimer"
    /\ Schedulable
    /\ host.bus = "down"
    /\ sched.err = DBusConnectError
    /\ ~TimerExists

(* ------------------ claims on the select of HealthCheck ---------------- *)
\* the call of HealthCheck that reached its select has returned
Returned == flight.pc = "returned"

\* C32: every call that has started its probe returns, also when the probe
\* never exits and the caller never cancels: it takes the completion branch
\* and applies the result of the probe, or the timeout has expired, it sends
\* SIGKILL and applies the timeout result; it calls updateHealthStatus once.
C32_TickReturns ==
    /\ \A k \in 1..MaxFlights :
          (calls = k /\ flight.pc = "select") ~> (calls = k /\ Returned)
    /\ [](Returned =>
            /\ flight.updates = 1
            /\ \/ flight.branch = "completion" /\ flight.kills = 0
               \/ flight.branch = "timeout" /\ flight.timer = "fired"
                                            /\ flight.kills = 1
            /\ flight.err = "nil"
                  => /\ LastOf(history).timedOut <=> flight.branch = "timeout"
                     /\ LastOf(trail).after = statusLabel)

\* a call has returned whose probe never exited and whose caller never
\* cancelled: the probe was killed and the timeout is in the record
C32_Witness ==
    /\ Returned
    /\ flight.branch = "timeout"
    /\ flight.ctx = "live"
    /\ flight.process = "killed"
    /\ flight.err = "nil"
    /\ LastOf(history).timedOut
    /\ ret = "health check timed out after"

\* C33 (as stated): a call whose context was cancelled while its probe was
\* running has, when it returns, sent SIGKILL to the exec and called
\* updateHealthStatus for the probe, and the probe is not running any more.
C33_CancelKillsAndPersists ==
    (Returned /\ flight.inFlightAtCancel) =>
        /\ flight.kills >= 1
        /\ flight.updates >= 1
        /\ flight.process # "running"

\* C38: a call that reached its select takes exactly one branch and calls
\* updateHealthStatus once; when the label write succeeds the call has added
\* exactly one log entry, that of a completed probe or that of a timeout as
\* the branch says, and no entry when it fails; this also holds when the
\* probe has exited and the timer has fired before the select runs.
C38_OneEntryPerTick ==
    /\ [][IF flight.pc # "select" /\ flight'.pc = "select"
          THEN trail' = trail
          ELSE Len(trail') - Len(trail) = flight'.writes - flight.writes]_vars
    /\ [](Returned =>
            /\ flight.branch \in {"completion", "timeout"}
            /\ flight.updates = 1
            /\ flight.writes = IF flight.err = "nil" THEN 1 ELSE 0
            /\ flight.err = "nil"
                  => LET e == LastOf(loadHealthStatus(statusLabel).Log)
                     IN  /\ LastOf(trail).after = statusLabel
                         /\ e.Output = IF flight.branch = "timeout"
                                       THEN "health check timed out: out" ELSE "out"
                         /\ e.Start = flight.startTime
                         /\ e.End = now)

\* the probe had exited and the timer had fired when the select ran: the
\* call took the completion branch and added one entry
C38_Witness ==
    /\ Returned
    /\ flight.process = "exited"
    /\ flight.timer = "fired"
    /\ flight.branch = "completion"
    /\ flight.writes = 1
    /\ Len(trail) = 1

\* C40: while label healthcheck/status holds a value that does not decode,
\* updateHealthStatus returns "invalid health status" and writes nothing: the
\* label stays as it is, and every later call fails the same way.
C40_UndecodableStatusStays ==
    /\ [][statusLabel = InvalidStatusLabel => statusLabel' = InvalidStatusLabel]_vars
    /\ []((Returned /\ statusLabel = InvalidStatusLabel) =>
            /\ flight.writes = 0
            /\ trail = <<>>
            /\ ret \in PersistErrors
            /\ flight.ctx = "live" => flight.err = "invalid health status")

\* the second call on a container whose status label does not decode has
\* failed as the first did
C40_Witness ==
    /\ calls = 2
    /\ Returned
    /\ statusLabel = InvalidStatusLabel
    /\ flight.err = "invalid health status"
    /\ ret = "failed to update health status after success"

(* -------------------------- claims on the labels ----------------------- *)
\* C36: no call of HealthCheck, whatever its outcome, and no scheduler
\* operation changes label healthcheck/config; a call of HealthCheck writes
\* no label but healthcheck/status, and a scheduler operation writes none.
C36_ProbeSpecNeverChanges ==
    [][/\ configLabel' = configLabel
       /\ sched' # sched => statusLabel' = statusLabel]_vars

\* a call of HealthCheck has written the status label and the scheduler
\* operations have made and removed the units of the container
C36_Witness ==
    /\ configLabel \in HealthConfig
    /\ statusLabel # NoLabel
    /\ Returned
    /\ flight.writes = 1
    /\ sched.event = "RemoveTransient"
    /\ sched.acted
    /\ sched.last # <<>>
    /\ sched.last[1].event = "CreateTimer"

(* ------------------------ claims on the unit names --------------------- *)
\* C39 (as stated): every call of the three operations addresses units of
\* the base name of its container, the same on every call; it addresses no
\* unit made for another container; and RemoveTransient addresses exactly
\* the timer and the service that CreateTimer made for its container, so
\* none of them is left loaded after it.
C39_RemoveTargetsWhatCreateMade ==
    sched.event # "none" =>
        /\ \A t \in sched.targets :
              t.unit \in {sched.id \o ".timer", sched.id \o ".service"}
        /\ \A t \in sched.targets, u \in sched.pre :
              (u.manager = t.manager /\ u.unit = t.unit) => u.owner = sched.id
        /\ sched.event = "RemoveTransient"
              => /\ \A u \in sched.pre :
                       u.owner = sched.id => Target(u.manager, u.unit) \in sched.targets
                 /\ \A u \in units : u.owner # sched.id

====
